---- MODULE Spec2Model ----
(***************************************************************************)
(* The backup/restore pipeline (src/utils/backupRestore.ts) and the        *)
(* outbound-command audit classifier (logSMSOperation of the data-store    *)
(* context, src/unnamed/part_001) of the GSM opener application.           *)
(*                                                                         *)
(* Text is a sequence of one-character strings.  Offsets handed around by  *)
(* the code (indexOf, substring, lastValidPos) are kept 0-based as in the  *)
(* source; only the sequence accesses add 1.                               *)
(***************************************************************************)
EXTENDS Integers, Sequences, FiniteSets, TLC

\* A JavaScript string as the sequence of its characters.
Chars(s) == [i \in 1..Len(s) |-> SubSeq(s, i, i)]

\* The character at 1-based position i, "" past either end.
At(s, i) == IF i >= 1 /\ i <= Len(s) THEN s[i] ELSE ""

\* White space as String.prototype.trim, the regular expression class \s and
\* the JSON grammar see it (restricted to the characters of the inputs).
WS == {" ", "\n", "\t", "\r"}

\* s.slice(a - 1, b) on 1-based positions a..b, clipped to the text.
Slice(s, a, b) ==
    LET lo == IF a < 1 THEN 1 ELSE a
        hi == IF b > Len(s) THEN Len(s) ELSE b
    IN  IF lo > hi THEN <<>> ELSE SubSeq(s, lo, hi)

Digits == <<"0", "1", "2", "3", "4", "5", "6", "7", "8", "9">>

IsDigit(c) == \E d \in 1..10 : Digits[d] = c

DigitVal(c) == (CHOOSE d \in 1..10 : Digits[d] = c) - 1

Min(S) == CHOOSE x \in S : \A y \in S : x <= y

Max(S) == CHOOSE x \in S : \A y \in S : x >= y

\* String.prototype.trim
Trim(s) ==
    LET keep == {i \in 1..Len(s) : s[i] \notin WS}
    IN  IF keep = {} THEN <<>> ELSE SubSeq(s, Min(keep), Max(keep))

\* String.prototype.indexOf: the 0-based offset of the first occurrence, -1 if none.
IndexOf(s, pat) ==
    LET hits == {i \in 0..(Len(s) - Len(pat)) : Slice(s, i + 1, i + Len(pat)) = pat}
    IN  IF hits = {} THEN -1 ELSE Min(hits)

\* String.prototype.lastIndexOf
LastIndexOf(s, pat) ==
    LET hits == {i \in 0..(Len(s) - Len(pat)) : Slice(s, i + 1, i + Len(pat)) = pat}
    IN  IF hits = {} THEN -1 ELSE Max(hits)

\* String.prototype.includes
Includes(s, pat) == IndexOf(s, pat) >= 0

\* s.substring(from) and s.substring(0, to), 0-based
SubstringFrom(s, from) == Slice(s, from + 1, Len(s))

SubstringTo(s, to) == Slice(s, 1, to)

(***************************************************************************)
(* JSON values.  Every value is a record of the same shape, so that any    *)
(* two values can be compared: t is the type tag, s the characters of a    *)
(* string, n the value of a number, kids the members of an object (key k,  *)
(* value v, in insertion order) or the elements of an array (k empty).     *)
(***************************************************************************)
JNull == [t |-> "null", s |-> <<>>, n |-> 0, kids |-> <<>>]

JBool(b) == [t |-> IF b THEN "true" ELSE "false", s |-> <<>>, n |-> 0, kids |-> <<>>]

JNum(n) == [t |-> "num", s |-> <<>>, n |-> n, kids |-> <<>>]

JStr(s) == [t |-> "str", s |-> s, n |-> 0, kids |-> <<>>]

JArr(items) == [t |-> "arr", s |-> <<>>, n |-> 0, kids |-> items]

JObj(members) == [t |-> "obj", s |-> <<>>, n |-> 0, kids |-> members]

\* What JSON.parse leaves behind when it throws SyntaxError.
JError == [t |-> "error", s |-> <<>>, n |-> 0, kids |-> <<>>]

\* obj[key] = val on a member list: an existing key keeps its place.
ObjPut(members, key, val) ==
    IF \E i \in 1..Len(members) : members[i].k = key
    THEN [i \in 1..Len(members) |->
            IF members[i].k = key THEN [k |-> key, v |-> val] ELSE members[i]]
    ELSE Append(members, [k |-> key, v |-> val])

\* obj[key], JError standing for undefined
ObjGet(members, key) ==
    IF \E i \in 1..Len(members) : members[i].k = key
    THEN members[CHOOSE i \in 1..Len(members) : members[i].k = key].v
    ELSE JError

PFail == [ok |-> FALSE, v |-> JError, next |-> 0]

POk(val, nxt) == [ok |-> TRUE, v |-> val, next |-> nxt]

RECURSIVE SkipWS(_, _)
SkipWS(s, i) == IF At(s, i) \in WS THEN SkipWS(s, i + 1) ELSE i

\* The body of a JSON string literal from position j (after the opening quote).
RECURSIVE ParseStrBody(_, _, _)
ParseStrBody(s, j, acc) ==
    LET c == At(s, j)
        e == At(s, j + 1)
    IN  IF c = "" THEN PFail
        ELSE IF c = "\"" THEN POk(JStr(acc), j + 1)
        ELSE IF c = "\\" THEN
            IF e \in {"\"", "\\", "/"} THEN ParseStrBody(s, j + 2, Append(acc, e))
            ELSE IF e = "n" THEN ParseStrBody(s, j + 2, Append(acc, "\n"))
            ELSE IF e = "t" THEN ParseStrBody(s, j + 2, Append(acc, "\t"))
            ELSE IF e = "r" THEN ParseStrBody(s, j + 2, Append(acc, "\r"))
            ELSE PFail
        ELSE IF c \in {"\n", "\t", "\r"} THEN PFail
        ELSE ParseStrBody(s, j + 1, Append(acc, c))

RECURSIVE ParseDigits(_, _, _)
ParseDigits(s, j, acc) ==
    IF IsDigit(At(s, j)) THEN ParseDigits(s, j + 1, 10 * acc + DigitVal(At(s, j)))
    ELSE [n |-> acc, next |-> j]

\* A JSON number: -? (0 | [1-9][0-9]*).  Fractions and exponents do not occur
\* in the texts of this model.
ParseNumber(s, i) ==
    LET neg == At(s, i) = "-"
        j   == IF neg THEN i + 1 ELSE i
        d   == ParseDigits(s, j, 0)
    IN  IF ~IsDigit(At(s, j)) THEN PFail
        ELSE IF At(s, j) = "0" /\ IsDigit(At(s, j + 1)) THEN PFail
        ELSE POk(JNum(IF neg THEN 0 - d.n ELSE d.n), d.next)

RECURSIVE ParseValue(_, _)
RECURSIVE ParseMembers(_, _, _)
RECURSIVE ParseElements(_, _, _)

\* The members of an object from position j, the first character of a key:
\* a string, a colon, a value, then either the closing brace or a comma and
\* the next member.
ParseMembers(s, j, acc) ==
    LET Rest(acc2, after) ==
            IF At(s, after) = "}" THEN POk(JObj(acc2), after + 1)
            ELSE IF At(s, after) = "," THEN ParseMembers(s, SkipWS(s, after + 1), acc2)
            ELSE PFail
        Value(key, val) ==
            IF ~val.ok THEN PFail
            ELSE Rest(ObjPut(acc, key.v.s, val.v), SkipWS(s, val.next))
        Colon(key, colon) ==
            IF At(s, colon) # ":" THEN PFail
            ELSE Value(key, ParseValue(s, colon + 1))
        Key(key) ==
            IF ~key.ok THEN PFail ELSE Colon(key, SkipWS(s, key.next))
    IN  IF At(s, j) # "\"" THEN PFail
        ELSE Key(ParseStrBody(s, j + 1, <<>>))

\* The elements of an array from position j: a value, then either the closing
\* bracket or a comma and the next element.
ParseElements(s, j, acc) ==
    LET Rest(acc2, after) ==
            IF At(s, after) = "]" THEN POk(JArr(acc2), after + 1)
            ELSE IF At(s, after) = "," THEN ParseElements(s, after + 1, acc2)
            ELSE PFail
        Value(val) ==
            IF ~val.ok THEN PFail
            ELSE Rest(Append(acc, [k |-> <<>>, v |-> val.v]), SkipWS(s, val.next))
    IN  Value(ParseValue(s, j))

\* One JSON value starting at or after position i (leading white space skipped).
ParseValue(s, i) ==
    LET Object(first) ==
            IF At(s, first) = "}" THEN POk(JObj(<<>>), first + 1)
            ELSE ParseMembers(s, first, <<>>)
        Array(first) ==
            IF At(s, first) = "]" THEN POk(JArr(<<>>), first + 1)
            ELSE ParseElements(s, first, <<>>)
        Value(j, c) ==
            IF c = "{" THEN Object(SkipWS(s, j + 1))
            ELSE IF c = "[" THEN Array(SkipWS(s, j + 1))
            ELSE IF c = "\"" THEN ParseStrBody(s, j + 1, <<>>)
            ELSE IF c = "-" \/ IsDigit(c) THEN ParseNumber(s, j)
            ELSE IF Slice(s, j, j + 3) = <<"t", "r", "u", "e">> THEN POk(JBool(TRUE), j + 4)
            ELSE IF Slice(s, j, j + 4) = <<"f", "a", "l", "s", "e">>
                THEN POk(JBool(FALSE), j + 5)
            ELSE IF Slice(s, j, j + 3) = <<"n", "u", "l", "l">> THEN POk(JNull, j + 4)
            ELSE PFail
        At1(j) == Value(j, At(s, j))
    IN  At1(SkipWS(s, i))

\* JSON.parse: the value, or JError where JSON.parse throws.
JSONParse(s) ==
    LET End(r) == IF r.ok /\ SkipWS(s, r.next) > Len(s) THEN r.v ELSE JError
    IN  End(ParseValue(s, 1))

RECURSIVE NatToChars(_)
NatToChars(n) ==
    IF n < 10 THEN <<Digits[n + 1]>>
    ELSE Append(NatToChars(n \div 10), Digits[(n % 10) + 1])

RECURSIVE QuoteBody(_, _)
QuoteBody(s, i) ==
    IF i > Len(s) THEN <<>>
    ELSE (IF s[i] = "\"" THEN <<"\\", "\"">>
          ELSE IF s[i] = "\\" THEN <<"\\", "\\">>
          ELSE IF s[i] = "\n" THEN <<"\\", "n">>
          ELSE IF s[i] = "\t" THEN <<"\\", "t">>
          ELSE IF s[i] = "\r" THEN <<"\\", "r">>
          ELSE <<s[i]>>) \o QuoteBody(s, i + 1)

\* The JSON string literal of a string.
Quote(s) == <<"\"">> \o QuoteBody(s, 1) \o <<"\"">>

RECURSIVE JSONStringify(_)
RECURSIVE StringifyKids(_, _, _)

\* The members or elements from index i on, comma-separated.
StringifyKids(kids, i, withKeys) ==
    IF i > Len(kids) THEN <<>>
    ELSE (IF i > 1 THEN <<",">> ELSE <<>>)
         \o (IF withKeys THEN Quote(kids[i].k) \o <<":">> ELSE <<>>)
         \o JSONStringify(kids[i].v)
         \o StringifyKids(kids, i + 1, withKeys)

\* JSON.stringify
JSONStringify(v) ==
    IF v.t = "null" THEN Chars("null")
    ELSE IF v.t = "true" THEN Chars("true")
    ELSE IF v.t = "false" THEN Chars("false")
    ELSE IF v.t = "num" THEN
        (IF v.n < 0 THEN <<"-">> \o NatToChars(0 - v.n) ELSE NatToChars(v.n))
    ELSE IF v.t = "str" THEN Quote(v.s)
    ELSE IF v.t = "arr" THEN <<"[">> \o StringifyKids(v.kids, 1, FALSE) \o <<"]">>
    ELSE <<"{">> \o StringifyKids(v.kids, 1, TRUE) \o <<"}">>

(***************************************************************************)
(* restoreFromBackup, the synchronous stages: guard, locate start, locate  *)
(* end, parse with its two fallbacks, shape normalization.                 *)
(***************************************************************************)

\* jsonStart: the least offset among the markers found, -1 when none is found.
JsonStart(content) ==
    LET jsonStartOptions ==
            { pos \in { IndexOf(content, Chars("{\"")),
                        IndexOf(content, Chars("{\n\"")),
                        IndexOf(content, Chars("{ \"")),
                        LastIndexOf(content, Chars("{\"")) } : pos >= 0 }
    IN  IF jsonStartOptions # {} THEN Min(jsonStartOptions) ELSE -1

\* Everything before a marker found at a non-zero offset is dropped.
LocateStart(content) ==
    LET From(jsonStart) ==
            IF jsonStart > 0 THEN SubstringFrom(content, jsonStart) ELSE content
    IN  From(JsonStart(content))

\* The brace-balancing loop from character i (1-based) on: lastValidPos at its end.
RECURSIVE BalanceScan(_, _, _, _)
BalanceScan(content, i, braceCount, lastValidPos) ==
    IF i > Len(content) THEN lastValidPos
    ELSE LET char  == content[i]
             count == IF char = "{" THEN braceCount + 1
                      ELSE IF char = "}" THEN braceCount - 1
                      ELSE braceCount
         IN  BalanceScan(content, i + 1, count,
                         IF char = "}" /\ count = 0 THEN i ELSE lastValidPos)

LastValidPos(content) == BalanceScan(content, 1, 0, 0)

\* The text is cut at lastValidPos when that lies strictly inside it.
LocateEnd(content) ==
    LET To(lastValidPos) ==
            IF lastValidPos > 0 /\ lastValidPos < Len(content)
            THEN SubstringTo(content, lastValidPos)
            ELSE content
    IN  To(LastValidPos(content))

\* processedContent as it reaches the parse step.
ProcessedContent(backupJson) == LocateEnd(LocateStart(Trim(backupJson)))

\* s.replace(/,\s*<close>/g, close) from character i on.
RECURSIVE StripCommaBefore(_, _, _)
StripCommaBefore(s, i, close) ==
    IF i > Len(s) THEN <<>>
    ELSE IF s[i] = "," /\ At(s, SkipWS(s, i + 1)) = close
         THEN <<close>> \o StripCommaBefore(s, SkipWS(s, i + 1) + 1, close)
         ELSE <<s[i]>> \o StripCommaBefore(s, i + 1, close)

\* RepairJson with the second replace left out: arrays keep their trailing comma.
RepairJson_ObjectsOnly(content) == StripCommaBefore(content, 1, "}")

\* fixedJson: trailing commas of objects, then of arrays, removed.
RepairJson(content) ==
    StripCommaBefore(StripCommaBefore(content, 1, "}"), 1, "]")

\* The least position >= i holding character c, 0 when there is none.
RECURSIVE FindChar(_, _, _)
FindChar(s, i, c) ==
    IF i > Len(s) THEN 0
    ELSE IF s[i] = c THEN i
    ELSE FindChar(s, i + 1, c)

\* "(?:\\.|[^"\\])*" from position j, after the opening quote: the position of
\* the closing quote, 0 when the alternative does not match.
RECURSIVE RegexStringEnd(_, _)
RegexStringEnd(s, j) ==
    LET c == At(s, j)
        e == At(s, j + 1)
    IN  IF c = "" THEN 0
        ELSE IF c = "\"" THEN j
        ELSE IF c = "\\" THEN
            (IF e = "" \/ e \in {"\n", "\r"} THEN 0 ELSE RegexStringEnd(s, j + 2))
        ELSE RegexStringEnd(s, j + 1)

\* [0-9]+ from position j: the position of the last digit.
RECURSIVE RegexDigitsEnd(_, _)
RegexDigitsEnd(s, j) ==
    IF IsDigit(At(s, j + 1)) THEN RegexDigitsEnd(s, j + 1) ELSE j

\* The value alternatives of keyValueRegex tried in order at position p: the
\* position of the last character matched, 0 when none matches.
RegexValueEnd(s, p) ==
    LET c == At(s, p)
    IN  IF c = "\"" THEN RegexStringEnd(s, p + 1)
        ELSE IF IsDigit(c) THEN RegexDigitsEnd(s, p)
        ELSE IF Slice(s, p, p + 3) = <<"t", "r", "u", "e">> THEN p + 3
        ELSE IF Slice(s, p, p + 4) = <<"f", "a", "l", "s", "e">> THEN p + 4
        ELSE IF Slice(s, p, p + 3) = <<"n", "u", "l", "l">> THEN p + 3
        ELSE IF c = "{" THEN FindChar(s, p + 1, "}")
        ELSE IF c = "[" THEN FindChar(s, p + 1, "]")
        ELSE 0

\* keyValueRegex attempted at position p: "([^"]+)"\s*:\s*(value).
RegexMatchAt(s, p) ==
    LET fail == [ok |-> FALSE, key |-> <<>>, value |-> <<>>, last |-> 0]
        Value(q, vstart, vend) ==
            IF vend = 0 THEN fail
            ELSE [ok |-> TRUE, key |-> Slice(s, p + 1, q - 1),
                  value |-> Slice(s, vstart, vend), last |-> vend]
        ValueAt(q, vstart) == Value(q, vstart, RegexValueEnd(s, vstart))
        Colon(q, colon) ==
            IF At(s, colon) # ":" THEN fail ELSE ValueAt(q, SkipWS(s, colon + 1))
        Key(q) ==
            IF q = 0 \/ q = p + 1 THEN fail ELSE Colon(q, SkipWS(s, q + 1))
    IN  IF At(s, p) # "\"" THEN fail ELSE Key(FindChar(s, p + 1, "\""))

\* The while loop over keyValueRegex.exec, the search resuming at position p:
\* a match whose value JSON.parse rejects is skipped.
RECURSIVE ExtractPairs(_, _, _)
ExtractPairs(s, p, extractedData) ==
    LET Put(key, value) ==
            IF value = JError THEN extractedData
            ELSE ObjPut(extractedData, key, value)
        Match(match) ==
            IF ~match.ok THEN ExtractPairs(s, p + 1, extractedData)
            ELSE ExtractPairs(s, match.last + 1, Put(match.key, JSONParse(match.value)))
    IN  IF p > Len(s) THEN extractedData ELSE Match(RegexMatchAt(s, p))

\* The parse step: strict parse, then the repair pass, then the extraction.
\* stage names the strategy that produced parsedData ("malformed": none did).
ParseStep(content) ==
    LET Extract(extractedData) ==
            IF Len(extractedData) > 0
            THEN [stage |-> "extract", parsedData |-> JObj(extractedData)]
            ELSE [stage |-> "malformed", parsedData |-> JError]
        Repair(repaired) ==
            IF repaired # JError THEN [stage |-> "repair", parsedData |-> repaired]
            ELSE Extract(ExtractPairs(content, 1, <<>>))
        Strict(strict) ==
            IF strict # JError THEN [stage |-> "strict", parsedData |-> strict]
            ELSE Repair(JSONParse(RepairJson(content)))
    IN  Strict(JSONParse(content))

\* Object.entries of an array: its elements under the keys "0", "1", ...
ArrayEntries(items) ==
    [i \in 1..Len(items) |-> [k |-> NatToChars(i - 1), v |-> items[i].v]]

\* Shape normalization: dataToStore as the list of its entries.  kind is
\* "entries" when dataToStore is an object or an array, "null" when it is null
\* (Object.entries then throws TypeError), "unsupported" when the code throws.
Normalize(parsedData) ==
    LET data == IF parsedData.t = "obj" THEN ObjGet(parsedData.kids, Chars("data"))
                ELSE JError
    IN  IF data.t = "obj"
            THEN [kind |-> "entries", entries |-> data.kids]
        ELSE IF data.t = "arr"
            THEN [kind |-> "entries", entries |-> ArrayEntries(data.kids)]
        ELSE IF parsedData.t = "obj"
            THEN [kind |-> "entries", entries |-> parsedData.kids]
        ELSE IF parsedData.t = "null"
            THEN [kind |-> "null", entries |-> <<>>]
        ELSE IF parsedData.t = "arr"
            THEN [kind |-> "entries",
                  entries |-> <<[k |-> Chars("gsm_devices"), v |-> parsedData]>>]
        ELSE [kind |-> "unsupported", entries |-> <<>>]

\* valueToStore: a string as it is, anything else as its JSON text.
ValueToStore(value) == IF value.t = "str" THEN value.s ELSE JSONStringify(value)

(***************************************************************************)
(* createBackup                                                            *)
(***************************************************************************)

\* The keys of a store as a list, in the order getAllKeys returns them.
RECURSIVE KeyList(_)
KeyList(keys) ==
    IF keys = {} THEN <<>>
    ELSE LET key == CHOOSE k \in keys : TRUE
         IN  <<key>> \o KeyList(keys \ {key})

\* backupData after the forEach over keyValuePairs from index i on: a falsy
\* (empty) value is left out, a value JSON.parse rejects is kept as a string.
RECURSIVE BackupData(_, _, _, _)
BackupData(st, allKeys, i, backupData) ==
    LET Put(key, value, parsed) ==
            IF value = <<>> THEN backupData
            ELSE ObjPut(backupData, key, IF parsed # JError THEN parsed ELSE JStr(value))
    IN  IF i > Len(allKeys) THEN backupData
        ELSE BackupData(st, allKeys, i + 1,
                        Put(allKeys[i], st[allKeys[i]], JSONParse(st[allKeys[i]])))

\* The text createBackup returns for store content st.
CreateBackupText(st) ==
    JSONStringify(JObj(BackupData(st, KeyList(DOMAIN st), 1, <<>>)))

(***************************************************************************)
(* State                                                                   *)
(***************************************************************************)
VARIABLES
    store,      \* the Store Backend (AsyncStorage): a function from keys to string values
    backup,     \* the last createBackup call: its outcome, its text, the store it read
    run,        \* the restoreFromBackup call: its position and its local variables
    logs,       \* the audit log of the repository: the LogEntry records, oldest first
    sms,        \* the last logSMSOperation call: its argument, its locals, its outcome
    repo,       \* the repository (DataStore): devices, users, globalSettings, logs
    cache,      \* the `store` state of DataStoreProvider: the cached snapshot
    sync,       \* refreshStore: isRefreshing.current and the queued setStore updaters
    calls,      \* per caller, the data-store context operation it is in
    screen      \* the relay-settings screen (Step4Page): its local state

vars == <<store, backup, run, logs, sms, repo, cache, sync, calls, screen>>

appVars == <<repo, cache, sync, calls, screen>>

restoreVars == <<store, backup, run>>

smsVars == <<logs, sms>>

EmptyStore == [k \in {} |-> <<>>]

\* The bound on the number of keys of the initial store.
MaxStoreKeys == 2

InitKeys == {Chars("a"), Chars("data"), Chars("old")}

\* Values a key of the Store Backend may hold: any string.
InitValues ==
    { Chars("1"),                       \* the JSON text of a number
      Chars("\"s\""),                   \* the JSON text of a string
      Chars("null"),                    \* the JSON text of null
      <<>>,                             \* the empty string
      Chars("plain"),                   \* not JSON text
      Chars("{\"x\":1}"),               \* the JSON text of an object
      Chars("{\"x\":\"}\"}") }          \* an object with a brace inside a string

InitStores ==
    UNION { [keys -> InitValues] :
            keys \in {ks \in SUBSET InitKeys : Cardinality(ks) <= MaxStoreKeys} }

\* A backup object text and the trailing text appended to it.
FlatObjects == { Chars("{\"a\":1}"), Chars("{\"b\":\"x\",\"c\":true}") }

Trailers ==
    { Chars("\nEOF marker"), Chars("}"), Chars(" junk {\"b\":2}"), Chars(" {}") }

\* The texts handed to restoreFromBackup besides the output of createBackup.
FileInputs ==
    { <<>>, Chars("  "), Chars(" \n"),
      Chars("null"), Chars("5"), Chars("\"abc\""), Chars("true"), Chars("garbage"),
      Chars("{}"), Chars("[]"), Chars("[1,2]"),
      Chars("[{\"id\":\"a\"},{\"id\":\"b\"}]"),
      Chars("{\"a\":1,}"), Chars("{\"b\":[1,2,],}"), Chars("{\"a\":\",]\"}"),
      Chars("log: {\"b\":\"x\",\"c\":[1,2,]}"),
      Chars("{\"a\":1 \"b\":2}"),
      Chars("{\"a\":{\"b\":1"),
      Chars("{\"a\":null}"), Chars("{\"a\":null,\"b\":2,\"c\":\"x\"}"),
      Chars("{\"a\":\"}\"}"),
      Chars("{\"data\":[1,2]}"), Chars("{\"data\":\"x\",\"b\":1}"),
      Chars("{\"version\":\"1\",\"timestamp\":\"t\",\"data\":{\"b\":\"v\"}}") }
    \cup FlatObjects
    \cup { J \o T : J \in FlatObjects, T \in Trailers }

\* logSMSOperation before it is called.
IdleSMS ==
    [ called        |-> FALSE,
      deviceId      |-> "",
      command       |-> <<>>,
      maskedCommand |-> <<>>,
      action        |-> <<>>,
      category      |-> "",
      details       |-> <<>>,
      result        |-> "none" ]   \* logged (the LogEntry was appended) or NotFound

\* restoreFromBackup before it is called.
IdleRun ==
    [ pc           |-> "idle",   \* idle, clear (before getAllKeys), write (before setItem), done
      source       |-> "none",   \* backup: the text createBackup returned; file: any other text
      backupJson   |-> <<>>,
      stage        |-> "none",   \* the parse strategy that produced parsedData
      kind         |-> "none",   \* the shape of dataToStore
      entries      |-> <<>>,     \* Object.entries(dataToStore)
      idx          |-> 0,        \* the entry the loop is at
      successCount |-> 0,
      attempted    |-> {},       \* the keys setItem was called with
      written      |-> {},       \* the keys setItem succeeded for
      cleared      |-> "none",   \* the clear step: ok, getAllKeysFailed, multiRemoveFailed
      backendCalls |-> 0,        \* Store Backend operations started by this call
      before       |-> EmptyStore,   \* the store when the call was made
      result       |-> "none" ]  \* ok (returned true) or the Error thrown

\* activeDeviceId: null.
NullId == 0

\* The repository after its first initialization, nothing stored yet.
EmptyRepo ==
    [ devices        |-> <<>>,      \* Device[], in the order they were added
      users          |-> <<>>,      \* User[]
      globalSettings |-> [activeDeviceId |-> NullId],
      logs           |-> <<>>,      \* LogEntry records, oldest first
      nextDeviceId   |-> 1,         \* the id the next Device gets
      nextUserId     |-> 1 ]        \* the id the next User gets

\* dataStore.getStore(): the three fields refreshStore reads.
GetStore(r) ==
    [devices |-> r.devices, users |-> r.users, globalSettings |-> r.globalSettings]

\* The callers of the data-store context (screens and their handlers).
Callers == {"c1", "c2"}

\* A caller that is in no operation of the context.
IdleCall ==
    [ pc      |-> "idle",     \* idle; refresh: before refreshStore(); settle: refreshStore()
                              \* returned, its await not resumed yet; log: before addDeviceLog
      op      |-> "none",     \* the operation called last
      id      |-> NullId,     \* its id argument, or the id it returned
      result  |-> "none",     \* what the operation returned or threw
      primary |-> "none",     \* deleteDevice: removed once the Device record is gone
      wasActive |-> FALSE,    \* deleteDevice: the device was the active one when called
      failed  |-> {},         \* deleteDevice: the steps of the cascade that failed
      read    |-> FALSE,      \* its last refreshStore call did getStore()
      overlap |-> FALSE ]     \* another refreshStore call was in flight when it started

\* Step4Page as mounted: useState of relaySettings, no device loaded.
IdleScreen ==
    [ device        |-> NullId,
      accessControl |-> "AUT",
      latchTime     |-> <<"0", "0", "0">>,
      command       |-> <<>> ]       \* the SMS command sent last

\* The application after initializeStore: the cache holds what the repository holds.
AppIdle ==
    /\ repo = EmptyRepo
    /\ cache = [store |-> GetStore(EmptyRepo), ref |-> 0]
    /\ sync = [isRefreshing |-> FALSE, pending |-> <<>>]
    /\ calls = [c \in Callers |-> IdleCall]
    /\ screen = IdleScreen

InitRestore ==
    /\ AppIdle
    /\ store \in InitStores
    /\ backup = [status |-> "none", text |-> <<>>, pre |-> EmptyStore]
    /\ run = IdleRun
    /\ logs = <<>>
    /\ sms = IdleSMS

(***************************************************************************)
(* Actions of the backup/restore pipeline                                  *)
(***************************************************************************)

\* createBackup returns the text.
CreateBackup ==
    /\ run.pc = "idle"
    /\ backup.status = "none"
    /\ backup' = [status |-> "made", text |-> CreateBackupText(store), pre |-> store]
    /\ UNCHANGED <<store, run, smsVars, appVars>>

\* createBackup rethrows the error of getAllKeys or multiGet.
CreateBackupFails ==
    /\ run.pc = "idle"
    /\ backup.status = "none"
    /\ backup' = [status |-> "failed", text |-> <<>>, pre |-> store]
    /\ UNCHANGED <<store, run, smsVars, appVars>>

\* The call of restoreFromBackup(text) up to its first await: the guard, the
\* two locate stages, the parse step and shape normalization.
RunAfterParse(text, source, st) ==
    LET called == [IdleRun EXCEPT !.source = source, !.backupJson = text, !.before = st]
        Shaped(stage, shape) ==
            IF shape.kind = "unsupported"
            THEN [called EXCEPT !.pc = "done", !.stage = stage,
                                !.kind = "unsupported", !.result = "UnsupportedFormat"]
            ELSE [called EXCEPT !.pc = "clear", !.stage = stage,
                                !.kind = shape.kind, !.entries = shape.entries]
        Parsed(parse) ==
            IF parse.stage = "malformed"
            THEN [called EXCEPT !.pc = "done", !.stage = "malformed",
                                !.result = "MalformedBackup"]
            ELSE Shaped(parse.stage, Normalize(parse.parsedData))
    IN  IF text = <<>>
        THEN [called EXCEPT !.pc = "done", !.result = "EmptyBackup"]
        ELSE Parsed(ParseStep(ProcessedContent(text)))

RestoreCall(text, source) ==
    /\ run.pc = "idle"
    /\ run' = RunAfterParse(text, source, store)
    /\ UNCHANGED <<store, backup, smsVars, appVars>>

RestoreFromBackupText ==
    /\ backup.status = "made"
    /\ RestoreCall(backup.text, "backup")

RestoreFromFile == \E text \in FileInputs : RestoreCall(text, "file")

\* The first index >= i of an entry the loop does not skip (value not null).
RECURSIVE SkipNulls(_, _)
SkipNulls(entries, i) ==
    IF i <= Len(entries) /\ entries[i].v.t = "null" THEN SkipNulls(entries, i + 1)
    ELSE i

\* RunAtEntry with the final check left out: the call returns true whatever
\* successCount is.
RunAtEntry_NeverFails(r, i, successCount) ==
    IF i <= Len(r.entries)
    THEN [r EXCEPT !.pc = "write", !.idx = i, !.successCount = successCount]
    ELSE [r EXCEPT !.pc = "done", !.idx = i, !.successCount = successCount,
                   !.result = "ok"]

\* The loop at entry i: before the next setItem, or past the last entry, where
\* successCount decides between returning true and throwing.
RunAtEntry(r, i, successCount) ==
    IF i <= Len(r.entries)
    THEN [r EXCEPT !.pc = "write", !.idx = i, !.successCount = successCount]
    ELSE [r EXCEPT !.pc = "done", !.idx = i, !.successCount = successCount,
                   !.result = IF successCount = 0 THEN "RestoreFailed" ELSE "ok"]

\* After the clear step: Object.entries(dataToStore) and the empty check.
RunAfterClear(r) ==
    IF r.kind = "null" THEN [r EXCEPT !.pc = "done", !.result = "TypeError"]
    ELSE IF Len(r.entries) = 0 THEN [r EXCEPT !.pc = "done", !.result = "NoData"]
    ELSE RunAtEntry(r, SkipNulls(r.entries, 1), 0)

\* RestoreClear with the multiRemove call left out.
RestoreClear_KeepsKeys ==
    /\ run.pc = "clear"
    /\ run' = RunAfterClear([run EXCEPT !.cleared = "ok", !.backendCalls = 1])
    /\ UNCHANGED <<store, backup, smsVars, appVars>>

\* The clear step succeeds: getAllKeys, and multiRemove when there are keys.
RestoreClear ==
    /\ run.pc = "clear"
    /\ store' = EmptyStore
    /\ run' = RunAfterClear([run EXCEPT
                !.cleared = "ok",
                !.backendCalls = IF DOMAIN store = {} THEN 1 ELSE 2])
    /\ UNCHANGED <<backup, smsVars, appVars>>

\* getAllKeys throws: the error is logged and the restore goes on.
RestoreClearGetAllKeysFails ==
    /\ run.pc = "clear"
    /\ run' = RunAfterClear([run EXCEPT !.cleared = "getAllKeysFailed",
                                        !.backendCalls = 1])
    /\ UNCHANGED <<store, backup, smsVars, appVars>>

\* multiRemove throws, having removed some of the keys or none.
RestoreClearMultiRemoveFails ==
    /\ run.pc = "clear"
    /\ DOMAIN store # {}
    /\ \E kept \in SUBSET (DOMAIN store) :
          /\ kept # {}
          /\ store' = [k \in kept |-> store[k]]
    /\ run' = RunAfterClear([run EXCEPT !.cleared = "multiRemoveFailed",
                                        !.backendCalls = 2])
    /\ UNCHANGED <<backup, smsVars, appVars>>

\* setItem(key, valueToStore) succeeds for the entry the loop is at.
RestoreWrite ==
    /\ run.pc = "write"
    /\ LET entry == run.entries[run.idx]
       IN  /\ store' = [k \in DOMAIN store \cup {entry.k} |->
                          IF k = entry.k THEN ValueToStore(entry.v) ELSE store[k]]
           /\ run' = RunAtEntry([run EXCEPT !.attempted = @ \cup {entry.k},
                                            !.written = @ \cup {entry.k},
                                            !.backendCalls = @ + 1],
                                SkipNulls(run.entries, run.idx + 1),
                                run.successCount + 1)
    /\ UNCHANGED <<backup, smsVars, appVars>>

\* setItem throws: the error is logged and the loop goes on.
RestoreWriteFails ==
    /\ run.pc = "write"
    /\ run' = RunAtEntry([run EXCEPT !.attempted = @ \cup {run.entries[run.idx].k},
                                     !.backendCalls = @ + 1],
                         SkipNulls(run.entries, run.idx + 1),
                         run.successCount)
    /\ UNCHANGED <<store, backup, smsVars, appVars>>

NextRestore ==
    \/ CreateBackup
    \/ CreateBackupFails
    \/ RestoreFromBackupText
    \/ RestoreFromFile
    \/ RestoreClear
    \/ RestoreClearGetAllKeysFails
    \/ RestoreClearMultiRemoveFails
    \/ RestoreWrite
    \/ RestoreWriteFails

SpecRestore == InitRestore /\ [][NextRestore]_vars

(***************************************************************************)
(* logSMSOperation: the outbound-command classifier and audit logger       *)
(***************************************************************************)

UpperLetters == Chars("ABCDEFGHIJKLMNOPQRSTUVWXYZ")

IsUpper(c) == \E i \in 1..Len(UpperLetters) : UpperLetters[i] = c

\* Whether the characters at 1-based positions a..b are all digits.
AllDigits(s, a, b) == b <= Len(s) /\ \A i \in a..b : IsDigit(At(s, i))

\* The 0-based offset of the first match of /\d{4}[A-Z]/, -1 when there is none.
PasswordShapeIndex(command) ==
    LET hits == {i \in 0..(Len(command) - 5) :
                    AllDigits(command, i + 1, i + 4) /\ IsUpper(At(command, i + 5))}
    IN  IF hits = {} THEN -1 ELSE Min(hits)

\* The replacement text String.prototype.replace builds from a replacement
\* pattern, from character i on: $& stands for the matched substring, $$ for $.
RECURSIVE ExpandReplacement(_, _, _)
ExpandReplacement(pattern, matched, i) ==
    IF i > Len(pattern) THEN <<>>
    ELSE IF pattern[i] = "$" /\ At(pattern, i + 1) = "&"
        THEN matched \o ExpandReplacement(pattern, matched, i + 2)
    ELSE IF pattern[i] = "$" /\ At(pattern, i + 1) = "$"
        THEN <<"$">> \o ExpandReplacement(pattern, matched, i + 2)
    ELSE <<pattern[i]>> \o ExpandReplacement(pattern, matched, i + 1)

\* The second argument of replace: '****$&'.slice(4).
MaskReplacement == SubstringFrom(Chars("****$&"), 4)

\* maskedCommand: command.replace(/\d{4}[A-Z]/, '****$&'.slice(4)).
MaskedCommand(command) ==
    LET At0(index) ==
            IF index < 0 THEN command
            ELSE SubstringTo(command, index)
                 \o ExpandReplacement(MaskReplacement,
                                      Slice(command, index + 1, index + 5), 1)
                 \o SubstringFrom(command, index + 5)
    IN  At0(PasswordShapeIndex(command))

\* GotTime with the digits read as a number (leading zeros lost).
GotTime_AsNumber(command) ==
    LET hits == {i \in 0..(Len(command) - 6) :
                    /\ Slice(command, i + 1, i + 3) = <<"G", "O", "T">>
                    /\ AllDigits(command, i + 4, i + 6)}
        Value(i) == 100 * DigitVal(command[i + 4]) + 10 * DigitVal(command[i + 5])
                    + DigitVal(command[i + 6])
    IN  IF hits = {} THEN Chars("unknown")
        ELSE NatToChars(Value(Min(hits)))

\* command.match(/GOT(\d{3})/)?.[1] || 'unknown'
GotTime(command) ==
    LET hits == {i \in 0..(Len(command) - 6) :
                    /\ Slice(command, i + 1, i + 3) = <<"G", "O", "T">>
                    /\ AllDigits(command, i + 4, i + 6)}
    IN  IF hits = {} THEN Chars("unknown")
        ELSE Slice(command, Min(hits) + 4, Min(hits) + 6)

\* command.match(/P\d{4}\d{4}#/)
MatchesPasswordChange(command) ==
    \E i \in 1..Len(command) :
        /\ command[i] = "P"
        /\ AllDigits(command, i + 1, i + 8)
        /\ At(command, i + 9) = "#"

\* command.match(/A\d{3}#[^#]+#/)
MatchesAddUser(command) ==
    \E i \in 1..Len(command) :
        /\ command[i] = "A"
        /\ AllDigits(command, i + 1, i + 3)
        /\ At(command, i + 4) = "#"
        /\ At(command, i + 5) \notin {"#", ""}
        /\ FindChar(command, i + 6, "#") # 0

\* command.match(/A\d{3}##/)
MatchesRemoveUser(command) ==
    \E i \in 1..Len(command) :
        /\ command[i] = "A"
        /\ AllDigits(command, i + 1, i + 3)
        /\ At(command, i + 4) = "#"
        /\ At(command, i + 5) = "#"

\* The chain of Classify with the two user shapes tested before "TEL" and "EE".
Classify_UsersBeforeTEL(command, maskedCommand) ==
    LET Entry(action, category, text) ==
            [action |-> Chars(action), category |-> category,
             details |-> Chars(text) \o maskedCommand]
    IN  IF Includes(command, Chars("CC")) THEN
            Entry("Gate Open Command", "relay",
                  "Sent command to activate relay (open gate): ")
        ELSE IF Includes(command, Chars("DD")) THEN
            Entry("Gate Close Command", "relay",
                  "Sent command to deactivate relay (close gate): ")
        ELSE IF Includes(command, Chars("GOT")) THEN
            Entry("Relay Timing Setting", "settings", "Set relay timing: ")
        ELSE IF Includes(command, Chars("ALL")) THEN
            Entry("Access Control Setting", "settings",
                  "Set access mode to \"Allow All\" (any caller with password): ")
        ELSE IF Includes(command, Chars("AUT")) THEN
            Entry("Access Control Setting", "settings",
                  "Set access mode to \"Authorized Only\": ")
        ELSE IF MatchesAddUser(command) THEN
            Entry("User Management", "user", "Added authorized user: ")
        ELSE IF MatchesRemoveUser(command) THEN
            Entry("User Management", "user", "Removed authorized user: ")
        ELSE IF Includes(command, Chars("TEL")) THEN
            Entry("Admin Registration", "settings",
                  "Registered administrator phone number: ")
        ELSE IF Includes(command, Chars("EE")) THEN
            Entry("Status Check", "system", "Requested device status: ")
        ELSE IF MatchesPasswordChange(command) THEN
            Entry("Password Change", "settings", "Changed device password: ")
        ELSE [action |-> Chars("Unknown Command"), category |-> "relay",
              details |-> command]

\* The if/else-if chain of logSMSOperation: action, category and details.
Classify(command, maskedCommand) ==
    LET Entry(action, category, text) ==
            [action |-> Chars(action), category |-> category,
             details |-> Chars(text) \o maskedCommand]
    IN  IF Includes(command, Chars("CC")) THEN
            Entry("Gate Open Command", "relay",
                  "Sent command to activate relay (open gate): ")
        ELSE IF Includes(command, Chars("DD")) THEN
            Entry("Gate Close Command", "relay",
                  "Sent command to deactivate relay (close gate): ")
        ELSE IF Includes(command, Chars("GOT")) THEN
            [action |-> Chars("Relay Timing Setting"), category |-> "settings",
             details |-> Chars("Set relay timing to ")
                         \o (IF GotTime(command) = Chars("000") THEN Chars("toggle mode")
                             ELSE GotTime(command) \o Chars(" seconds"))
                         \o Chars(": ") \o maskedCommand]
        ELSE IF Includes(command, Chars("ALL")) THEN
            Entry("Access Control Setting", "settings",
                  "Set access mode to \"Allow All\" (any caller with password): ")
        ELSE IF Includes(command, Chars("AUT")) THEN
            Entry("Access Control Setting", "settings",
                  "Set access mode to \"Authorized Only\": ")
        ELSE IF Includes(command, Chars("TEL")) THEN
            Entry("Admin Registration", "settings",
                  "Registered administrator phone number: ")
        ELSE IF Includes(command, Chars("EE")) THEN
            Entry("Status Check", "system", "Requested device status: ")
        ELSE IF MatchesPasswordChange(command) THEN
            Entry("Password Change", "settings", "Changed device password: ")
        ELSE IF MatchesAddUser(command) THEN
            Entry("User Management", "user", "Added authorized user: ")
        ELSE IF MatchesRemoveUser(command) THEN
            Entry("User Management", "user", "Removed authorized user: ")
        ELSE [action |-> Chars("Unknown Command"), category |-> "relay",
              details |-> command]

\* The devices of the repository.
KnownDevices == {"d1"}

\* The repository's addDeviceLog: NotFoundError for an unknown device,
\* otherwise a new LogEntry at the end of the log.
AddDeviceLog(log, deviceId, action, details, success, category) ==
    IF deviceId \notin KnownDevices THEN [result |-> "NotFound", logs |-> log]
    ELSE [result |-> "logged",
          logs   |-> Append(log, [id |-> Len(log) + 1, deviceId |-> deviceId,
                                  action |-> action, details |-> details,
                                  success |-> success, category |-> category])]

\* The bound on the number of LogEntry records.
MaxLogs == 1

Passwords == {Chars("1234"), Chars("0907")}

\* What follows the password in a command.
CommandBodies ==
    { Chars("CC#"), Chars("DD#"), Chars("GOT045#"), Chars("GOT000#"), Chars("GOT#"),
      Chars("ALL#"), Chars("AUT#"), Chars("TEL0061#"), Chars("EE#"),
      Chars("P56785678#"), Chars("A001#0400#"), Chars("A001##"), Chars("X#"),
      Chars("A001#TEL04#"), Chars("DDCC#") }

\* The commands handed to logSMSOperation.
Commands ==
    { p \o b : p \in Passwords, b \in CommandBodies }
    \cup { <<>>, Chars("hello"), Chars("CC"), Chars("12CC#"), Chars("#1234CC#5678DD"),
           Chars("GOTGOT123#") }

InitSMS ==
    /\ AppIdle
    /\ store = EmptyStore
    /\ backup = [status |-> "none", text |-> <<>>, pre |-> EmptyStore]
    /\ run = IdleRun
    /\ logs = <<>>
    /\ sms = IdleSMS

\* logSMSOperation(deviceId, command, success)
LogSMSOperation(deviceId, command, success) ==
    LET Logged(maskedCommand, class, added) ==
            /\ logs' = added.logs
            /\ sms' = [called |-> TRUE, deviceId |-> deviceId, command |-> command,
                       maskedCommand |-> maskedCommand, action |-> class.action,
                       category |-> class.category, details |-> class.details,
                       result |-> added.result]
        Classified(maskedCommand, class) ==
            Logged(maskedCommand, class,
                   AddDeviceLog(logs, deviceId, class.action, class.details,
                                success, class.category))
        Masked(maskedCommand) ==
            Classified(maskedCommand, Classify(command, maskedCommand))
    IN  /\ Masked(MaskedCommand(command))
        /\ UNCHANGED <<restoreVars, appVars>>

LogSMS ==
    /\ Len(logs) < MaxLogs
    /\ \E deviceId \in {"d1", "d2"}, command \in Commands, success \in BOOLEAN :
          LogSMSOperation(deviceId, command, success)

NextSMS == LogSMS

SpecSMS == InitSMS /\ [][NextSMS]_vars

(***************************************************************************)
(* The repository (DataStore) as the data-store context uses it            *)
(***************************************************************************)

\* The bounds on the Devices and Users ever created and on the LogEntry
\* records kept.
MaxDevices == 1

MaxUsers == 1

MaxRepoLogs == 1

\* The ids callers pass: those the repository hands out, known to it only
\* between the creation and the deletion of their record.
DeviceIdArgs == 1..MaxDevices

UserIdArgs == 1..MaxUsers

\* The elements of a sequence.
Range(seq) == {seq[i] : i \in 1..Len(seq)}

DeviceIdsOf(r) == {r.devices[i].id : i \in 1..Len(r.devices)}

UserIdsOf(r) == {r.users[i].id : i \in 1..Len(r.users)}

\* getDeviceById
GetDeviceById(r, deviceId) ==
    CHOOSE d \in Range(r.devices) : d.id = deviceId

\* The repository with device deviceId replaced by Change(device).
WithDevice(r, deviceId, Change(_)) ==
    [r EXCEPT !.devices = [i \in 1..Len(r.devices) |->
                              IF r.devices[i].id = deviceId THEN Change(r.devices[i])
                              ELSE r.devices[i]]]

\* addDevice(fields): a fresh id; authorizedUsers as given.
RepoAddDevice(r, fields) ==
    [r EXCEPT !.devices = Append(@, [id              |-> r.nextDeviceId,
                                     name            |-> fields.name,
                                     unitNumber      |-> fields.unitNumber,
                                     password        |-> fields.password,
                                     authorizedUsers |-> fields.authorizedUsers,
                                     relaySettings   |-> fields.relaySettings]),
              !.nextDeviceId = @ + 1]

\* A cascade that leaves the LogEntry records of the device.
RepoDeleteDevice_KeepsLogs(r, deviceId, failed) ==
    LET NotIt(d) == d.id # deviceId
    IN  [r EXCEPT
            !.devices = SelectSeq(@, NotIt),
            !.globalSettings.activeDeviceId = IF @ = deviceId THEN NullId ELSE @]

\* deleteDevice(id), a cascade of three steps each attempted on its own:
\* the Device record, its LogEntry records, activeDeviceId. failed is the set
\* of the later steps that fail.
RepoDeleteDevice(r, deviceId, failed) ==
    LET NotIt(d) == d.id # deviceId
        OfOther(entry) == entry.deviceId # deviceId
    IN  [r EXCEPT
            !.devices = SelectSeq(@, NotIt),
            !.logs = IF "logs" \in failed THEN @ ELSE SelectSeq(@, OfOther),
            !.globalSettings.activeDeviceId =
                IF @ = deviceId /\ "active" \notin failed THEN NullId ELSE @]

\* addLogEntry on a known device: a LogEntry at the end of the log.
RepoAddDeviceLog(r, deviceId, action, details, success, category) ==
    [r EXCEPT !.logs = Append(@, [deviceId |-> deviceId, action |-> action,
                                  details |-> details, success |-> success,
                                  category |-> category])]

(***************************************************************************)
(* The synchronization layer: refreshStore and the cached snapshot         *)
(***************************************************************************)

\* The bound on the setStore updaters queued and not yet run.
MaxPending == 2

\* The JSON value of a Device, a User and of the object refreshStore hands
\* to JSON.stringify.
IdsJSON(ids) == JArr([i \in 1..Len(ids) |-> [k |-> <<>>, v |-> JStr(NatToChars(ids[i]))]])

DeviceJSON(d) ==
    JObj(<< [k |-> Chars("id"), v |-> JStr(NatToChars(d.id))],
            [k |-> Chars("name"), v |-> JStr(Chars(d.name))],
            [k |-> Chars("unitNumber"), v |-> JStr(Chars(d.unitNumber))],
            [k |-> Chars("password"), v |-> JStr(Chars(d.password))],
            [k |-> Chars("authorizedUsers"), v |-> IdsJSON(d.authorizedUsers)],
            [k |-> Chars("relaySettings"),
             v |-> JObj(<< [k |-> Chars("accessControl"),
                            v |-> JStr(Chars(d.relaySettings.accessControl))],
                           [k |-> Chars("latchTime"),
                            v |-> JStr(d.relaySettings.latchTime)] >>)] >>)

UserJSON(u) == JObj(<< [k |-> Chars("id"), v |-> JStr(NatToChars(u.id))] >>)

SnapshotJSON(s) ==
    JObj(<< [k |-> Chars("devices"),
             v |-> JArr([i \in 1..Len(s.devices) |->
                            [k |-> <<>>, v |-> DeviceJSON(s.devices[i])]])],
            [k |-> Chars("users"),
             v |-> JArr([i \in 1..Len(s.users) |->
                            [k |-> <<>>, v |-> UserJSON(s.users[i])]])],
            [k |-> Chars("globalSettings"),
             v |-> JObj(<< [k |-> Chars("activeDeviceId"),
                            v |-> IF s.globalSettings.activeDeviceId = NullId
                                  THEN JNull
                                  ELSE JStr(NatToChars(s.globalSettings.activeDeviceId))] >>)] >>)

\* A comparison of the device lists alone.
SameSnapshot_DevicesOnly(prevStore, storeData) ==
    prevStore.devices = storeData.devices

\* The test of the updater: the two JSON texts are the same.
SameSnapshot(prevStore, storeData) ==
    JSONStringify(SnapshotJSON(prevStore)) = JSONStringify(SnapshotJSON(storeData))

\* A refreshStore call is in flight: it has returned its promise and the
\* caller awaiting it has not resumed.
InFlight(c) == calls[c].pc = "settle"

\* A refreshStore that returns at its guard: nothing read, nothing queued.
RefreshStoreBody_Dropped(s, r) == [sync |-> s, read |-> FALSE]

\* The body of refreshStore, which has no await and so runs to its end in one
\* step: the guard; isRefreshing.current set; getStore(); the updater queued
\* with what was read; isRefreshing.current cleared in the finally block.
RefreshStoreBody(s, r) ==
    IF s.isRefreshing THEN [sync |-> s, read |-> FALSE]
    ELSE [sync |-> [isRefreshing |-> FALSE,
                    pending      |-> Append(s.pending, GetStore(r))],
          read |-> TRUE]

\* Caller c calls refreshStore(); next is where it goes on when the await
\* resumes.
CallRefreshStore(c, op, id, result) ==
    LET Ran(body) ==
            /\ sync' = body.sync
            /\ calls' = [calls EXCEPT ![c] =
                            [calls[c] EXCEPT
                                !.pc = "settle", !.op = op, !.id = id, !.result = result,
                                !.read = body.read,
                                !.overlap = \E o \in Callers \ {c} : InFlight(o)]]
    IN  /\ Len(sync.pending) < MaxPending
        /\ Ran(RefreshStoreBody(sync, repo))

\* A screen calls refreshStore() of the context.
RefreshStore(c) ==
    /\ calls[c].pc = "idle"
    /\ CallRefreshStore(c, "refreshStore", NullId, "none")
    /\ UNCHANGED <<repo, cache, screen, restoreVars, smsVars>>

\* The refreshStore() at the end of an operation of the context.
RefreshAfter(c) ==
    /\ calls[c].pc = "refresh"
    /\ CallRefreshStore(c, calls[c].op, calls[c].id, calls[c].result)
    /\ UNCHANGED <<repo, cache, screen, restoreVars, smsVars>>

\* React runs the oldest queued updater: prevStore is kept when the texts are
\* the same, otherwise a new object with the three fields read is the state.
ApplyUpdate ==
    /\ sync.pending # <<>>
    /\ cache' = IF SameSnapshot(cache.store, Head(sync.pending)) THEN cache
                ELSE [store |-> Head(sync.pending), ref |-> 1 - cache.ref]
    /\ sync' = [sync EXCEPT !.pending = Tail(@)]
    /\ UNCHANGED <<repo, calls, screen, restoreVars, smsVars>>

(***************************************************************************)
(* The operations of the data-store context                                *)
(***************************************************************************)

\* The call record of an operation that goes on to refreshStore(), and of
\* one that has returned or thrown.
Started(op, id, result) ==
    [IdleCall EXCEPT !.pc = "refresh", !.op = op, !.id = id, !.result = result]

Returned(op, id, result) ==
    [IdleCall EXCEPT !.op = op, !.id = id, !.result = result]

\* The fields callers hand to addDevice: authorizedUsers may be left out.
NewDevice ==
    [ name            |-> "Gate",
      unitNumber      |-> "0400",
      password        |-> "1234",
      authorizedUsers |-> [given |-> FALSE, ids |-> <<>>],
      relaySettings   |-> [accessControl |-> "AUT", latchTime |-> <<"0", "0", "0">>] ]

DeviceFields ==
    { NewDevice,
      [NewDevice EXCEPT !.authorizedUsers = [given |-> TRUE, ids |-> <<1>>]],
      [NewDevice EXCEPT !.name = ""],
      [NewDevice EXCEPT !.unitNumber = ""],
      [NewDevice EXCEPT !.password = "",
                        !.authorizedUsers = [given |-> TRUE, ids |-> <<1>>]] }

\* A validation of the name alone.
MissingRequired_NameOnly(device) == device.name = ""

\* !device.name || !device.unitNumber || !device.password
MissingRequired(device) ==
    device.name = "" \/ device.unitNumber = "" \/ device.password = ""

\* deviceToAdd: authorizedUsers: device.authorizedUsers || []
DeviceToAdd(device) ==
    [device EXCEPT !.authorizedUsers = IF @.given THEN @.ids ELSE <<>>]

\* addDevice(device): the validation, then dataStore.addDevice.
AddDevice(c, device) ==
    /\ calls[c].pc = "idle"
    /\ IF MissingRequired(device)
       THEN /\ calls' = [calls EXCEPT ![c] = Returned("addDevice", NullId, "ValidationError")]
            /\ UNCHANGED repo
       ELSE /\ repo.nextDeviceId <= MaxDevices
            /\ repo' = RepoAddDevice(repo, DeviceToAdd(device))
            /\ calls' = [calls EXCEPT ![c] = Started("addDevice", repo.nextDeviceId, "device")]
    /\ UNCHANGED <<cache, sync, screen, restoreVars, smsVars>>

\* dataStore.addDevice throws (the Store Backend failed): the error is rethrown.
AddDeviceFails(c, device) ==
    /\ calls[c].pc = "idle"
    /\ ~MissingRequired(device)
    /\ calls' = [calls EXCEPT ![c] = Returned("addDevice", NullId, "StorageIOError")]
    /\ UNCHANGED <<repo, cache, sync, screen, restoreVars, smsVars>>

\* updateDevice(deviceId, updates) with updates = {authorizedUsers: ids}.
UpdateDevice(c, deviceId, ids) ==
    LET Merge(d) == [d EXCEPT !.authorizedUsers = ids]
    IN  /\ calls[c].pc = "idle"
        /\ IF deviceId \in DeviceIdsOf(repo)
           THEN /\ repo' = WithDevice(repo, deviceId, Merge)
                /\ calls' = [calls EXCEPT ![c] = Started("updateDevice", deviceId, "device")]
           ELSE /\ calls' = [calls EXCEPT ![c] = Returned("updateDevice", deviceId, "NotFound")]
                /\ UNCHANGED repo
        /\ UNCHANGED <<cache, sync, screen, restoreVars, smsVars>>

\* deleteDevice(deviceId): dataStore.deleteDevice removes the Device record
\* (failed: the later steps of its cascade that fail) and returns true, or
\* returns false for an id it does not know.
DeleteDevice(c, deviceId, failed) ==
    /\ calls[c].pc = "idle"
    /\ IF deviceId \in DeviceIdsOf(repo)
       THEN /\ repo' = RepoDeleteDevice(repo, deviceId, failed)
            /\ calls' = [calls EXCEPT ![c] =
                            [Started("deleteDevice", deviceId, "none") EXCEPT
                                !.primary = "removed",
                                !.failed = failed,
                                !.wasActive =
                                    repo.globalSettings.activeDeviceId = deviceId]]
       ELSE /\ failed = {}
            /\ calls' = [calls EXCEPT ![c] = Returned("deleteDevice", deviceId, "false")]
            /\ UNCHANGED repo
    /\ UNCHANGED <<cache, sync, screen, restoreVars, smsVars>>

\* dataStore.deleteDevice cannot remove the Device record: false or an error,
\* either way deleteDevice returns false.
DeleteDeviceFails(c, deviceId) ==
    /\ calls[c].pc = "idle"
    /\ deviceId \in DeviceIdsOf(repo)
    /\ calls' = [calls EXCEPT ![c] = Returned("deleteDevice", deviceId, "false")]
    /\ UNCHANGED <<repo, cache, sync, screen, restoreVars, smsVars>>

\* The await of refreshStore() resumes: deleteDevice goes on to its audit
\* log, every other operation returns.
Settle(c) ==
    /\ calls[c].pc = "settle"
    /\ calls' = [calls EXCEPT ![c].pc =
                    IF calls[c].op = "deleteDevice" THEN "log" ELSE "idle"]
    /\ UNCHANGED <<repo, cache, sync, screen, restoreVars, smsVars>>

\* deleteDevice logs the deletion of the device that is gone, inside its try
\* block. dataStore.addDeviceLog(deviceId, ...) throws (NotFoundError for the
\* unknown device, or the Store Backend failed) and the catch block returns
\* false; or the repository stores the entry and success is returned.
LogDeletion(c, stored) ==
    /\ calls[c].pc = "log"
    /\ IF stored
       THEN /\ Len(repo.logs) < MaxRepoLogs
            /\ repo' = RepoAddDeviceLog(repo, calls[c].id, "Device Management",
                                        "Device deleted", TRUE, "system")
            /\ calls' = [calls EXCEPT ![c].pc = "idle", ![c].result = "true"]
       ELSE /\ calls' = [calls EXCEPT ![c].pc = "idle", ![c].result = "false"]
            /\ UNCHANGED repo
    /\ UNCHANGED <<cache, sync, screen, restoreVars, smsVars>>

\* addDeviceLog(deviceId, action, details): no refreshStore() follows.
AddDeviceLogEntry(c, deviceId) ==
    /\ calls[c].pc = "idle"
    /\ IF deviceId \in DeviceIdsOf(repo)
       THEN /\ Len(repo.logs) < MaxRepoLogs
            /\ repo' = RepoAddDeviceLog(repo, deviceId, "SMS Error",
                                        "Failed to send command", FALSE, "relay")
            /\ calls' = [calls EXCEPT ![c] = Returned("addDeviceLog", deviceId, "entry")]
       ELSE /\ calls' = [calls EXCEPT ![c] = Returned("addDeviceLog", deviceId, "NotFound")]
            /\ UNCHANGED repo
    /\ UNCHANGED <<cache, sync, screen, restoreVars, smsVars>>

\* setActiveDevice(deviceId): true for null and for a known device, which
\* becomes the active one; false otherwise, and then no refreshStore().
SetActiveDevice(c, deviceId) ==
    /\ calls[c].pc = "idle"
    /\ IF deviceId = NullId \/ deviceId \in DeviceIdsOf(repo)
       THEN /\ repo' = [repo EXCEPT !.globalSettings.activeDeviceId = deviceId]
            /\ calls' = [calls EXCEPT ![c] = Started("setActiveDevice", deviceId, "true")]
       ELSE /\ calls' = [calls EXCEPT ![c] = Returned("setActiveDevice", deviceId, "false")]
            /\ UNCHANGED repo
    /\ UNCHANGED <<cache, sync, screen, restoreVars, smsVars>>

\* updateGlobalSettings(updates) with updates = {activeDeviceId}: merged as given.
UpdateGlobalSettings(c, deviceId) ==
    /\ calls[c].pc = "idle"
    /\ repo' = [repo EXCEPT !.globalSettings.activeDeviceId = deviceId]
    /\ calls' = [calls EXCEPT ![c] = Started("updateGlobalSettings", deviceId, "settings")]
    /\ UNCHANGED <<cache, sync, screen, restoreVars, smsVars>>

\* addUser(user): a fresh id.
AddUser(c) ==
    /\ calls[c].pc = "idle"
    /\ repo.nextUserId <= MaxUsers
    /\ repo' = [repo EXCEPT !.users = Append(@, [id |-> repo.nextUserId]),
                            !.nextUserId = @ + 1]
    /\ calls' = [calls EXCEPT ![c] = Started("addUser", repo.nextUserId, "user")]
    /\ UNCHANGED <<cache, sync, screen, restoreVars, smsVars>>

\* deleteUser(userId): the User record goes, and its id goes from the
\* authorizedUsers of every device unless that step of the cascade fails.
DeleteUser(c, userId, cascadeFails) ==
    LET NotIt(u) == u.id # userId
        NotId(id) == id # userId
        Cleaned(d) == [d EXCEPT !.authorizedUsers = SelectSeq(@, NotId)]
    IN  /\ calls[c].pc = "idle"
        /\ IF userId \in UserIdsOf(repo)
           THEN /\ repo' = [repo EXCEPT
                               !.users = SelectSeq(@, NotIt),
                               !.devices = IF cascadeFails THEN @
                                           ELSE [i \in 1..Len(@) |-> Cleaned(@[i])]]
                /\ calls' = [calls EXCEPT ![c] = Started("deleteUser", userId, "true")]
           ELSE /\ ~cascadeFails
                /\ calls' = [calls EXCEPT ![c] = Returned("deleteUser", userId, "false")]
                /\ UNCHANGED repo
        /\ UNCHANGED <<cache, sync, screen, restoreVars, smsVars>>

\* An authorizeUserForDevice that adds the id whether or not it is there.
AuthorizeUserForDevice_Appends(c, deviceId, userId) ==
    LET Add(d) == [d EXCEPT !.authorizedUsers = Append(@, userId)]
    IN  /\ calls[c].pc = "idle"
        /\ IF deviceId \in DeviceIdsOf(repo) /\ userId \in UserIdsOf(repo)
           THEN /\ repo' = WithDevice(repo, deviceId, Add)
                /\ calls' = [calls EXCEPT ![c] = Started("authorize", deviceId, "true")]
           ELSE /\ calls' = [calls EXCEPT ![c] = Returned("authorize", deviceId, "NotFound")]
                /\ UNCHANGED repo
        /\ UNCHANGED <<cache, sync, screen, restoreVars, smsVars>>

\* authorizeUserForDevice(deviceId, userId): NotFoundError unless both
\* exist; the id is added once.
AuthorizeUserForDevice(c, deviceId, userId) ==
    LET Add(d) == [d EXCEPT !.authorizedUsers =
                      IF userId \in Range(@) THEN @ ELSE Append(@, userId)]
    IN  /\ calls[c].pc = "idle"
        /\ IF deviceId \in DeviceIdsOf(repo) /\ userId \in UserIdsOf(repo)
           THEN /\ repo' = WithDevice(repo, deviceId, Add)
                /\ calls' = [calls EXCEPT ![c] = Started("authorize", deviceId, "true")]
           ELSE /\ calls' = [calls EXCEPT ![c] = Returned("authorize", deviceId, "NotFound")]
                /\ UNCHANGED repo
        /\ UNCHANGED <<cache, sync, screen, restoreVars, smsVars>>

\* deauthorizeUserForDevice(deviceId, userId)
DeauthorizeUserForDevice(c, deviceId, userId) ==
    LET NotId(id) == id # userId
        Remove(d) == [d EXCEPT !.authorizedUsers = SelectSeq(@, NotId)]
    IN  /\ calls[c].pc = "idle"
        /\ IF deviceId \in DeviceIdsOf(repo) /\ userId \in UserIdsOf(repo)
           THEN /\ repo' = WithDevice(repo, deviceId, Remove)
                /\ calls' = [calls EXCEPT ![c] = Started("deauthorize", deviceId, "true")]
           ELSE /\ calls' = [calls EXCEPT ![c] = Returned("deauthorize", deviceId, "NotFound")]
                /\ UNCHANGED repo
        /\ UNCHANGED <<cache, sync, screen, restoreVars, smsVars>>

\* clearDeviceLogs(deviceId): the LogEntry records of the device go; no
\* refreshStore() follows.
ClearDeviceLogs(c, deviceId) ==
    LET OfOther(entry) == entry.deviceId # deviceId
    IN  /\ calls[c].pc = "idle"
        /\ repo' = [repo EXCEPT !.logs = SelectSeq(@, OfOther)]
        /\ calls' = [calls EXCEPT ![c] = Returned("clearDeviceLogs", deviceId, "true")]
        /\ UNCHANGED <<cache, sync, screen, restoreVars, smsVars>>

(***************************************************************************)
(* The relay-settings screen (Step4Page)                                   *)
(***************************************************************************)

\* What the user types or pastes into the latch time field.
LatchTimeTexts ==
    { <<>>, Chars("5"), Chars("45"), Chars("045"), Chars("1234"), Chars("a7") }

\* text.replace(/[^0-9]/g, '').slice(0, 3)
FilteredLatchTime(text) == SubstringTo(SelectSeq(text, IsDigit), 3)

\* String.prototype.padStart(targetLength, padString) for a one-character pad.
PadStart(s, targetLength, padString) ==
    IF Len(s) >= targetLength THEN s
    ELSE [i \in 1..(targetLength - Len(s)) |-> padString] \o s

\* The effect loads the device of the route (or the active one): the screen
\* keeps the device and shows its relaySettings.
LoadDevice(deviceId) ==
    /\ deviceId \in DeviceIdsOf(repo)
    /\ screen' = [screen EXCEPT
                     !.device = deviceId,
                     !.accessControl = GetDeviceById(repo, deviceId).relaySettings.accessControl,
                     !.latchTime = GetDeviceById(repo, deviceId).relaySettings.latchTime]
    /\ UNCHANGED <<repo, cache, sync, calls, restoreVars, smsVars>>

\* handleLatchTimeChange(text)
HandleLatchTimeChange(text) ==
    /\ screen' = [screen EXCEPT !.latchTime = FilteredLatchTime(text)]
    /\ UNCHANGED <<repo, cache, sync, calls, restoreVars, smsVars>>

\* saveToLocalStorage with a device loaded: updateDevice({...device,
\* relaySettings}) stores the relaySettings of the render the handler was
\* made in.
SaveToLocalStorage(r, deviceId, relaySettings) ==
    LET Put(d) == [d EXCEPT !.relaySettings = relaySettings]
    IN  WithDevice(r, deviceId, Put)

\* sendSMS(command): the SMS application is opened and logSMSOperation logs
\* the command classified, or opening fails and addDeviceLog logs the error.
SendSMS(r, deviceId, command, sent) ==
    LET Logged(class) ==
            RepoAddDeviceLog(r, deviceId, class.action, class.details, TRUE,
                             class.category)
    IN  IF sent THEN Logged(Classify(command, MaskedCommand(command)))
        ELSE RepoAddDeviceLog(r, deviceId, Chars("SMS Error"),
                              Chars("Failed to send command"), FALSE, "relay")

\* The relaySettings state of the current render.
RelaySettingsOf(s) == [accessControl |-> s.accessControl, latchTime |-> s.latchTime]

\* setLatchTime(), with a device loaded: the command carries the latch time
\* padded to three digits; what is saved is relaySettings as typed.
SetLatchTime(sent) ==
    LET Send(deviceId, command) ==
            /\ repo' = SendSMS(SaveToLocalStorage(repo, deviceId, RelaySettingsOf(screen)),
                               deviceId, command, sent)
            /\ screen' = [screen EXCEPT !.command = command]
    IN  /\ screen.device \in DeviceIdsOf(repo)
        /\ Len(repo.logs) < MaxRepoLogs
        /\ Send(screen.device,
                Chars(GetDeviceById(repo, screen.device).password) \o Chars("GOT")
                    \o PadStart(screen.latchTime, 3, "0") \o Chars("#"))
        /\ UNCHANGED <<cache, sync, calls, restoreVars, smsVars>>

\* setAccessControl(type), with a device loaded: the state takes type with the
\* next render; saveToLocalStorage() saves the relaySettings of this one.
SetAccessControl(type, sent) ==
    LET Send(deviceId, command) ==
            /\ repo' = SendSMS(SaveToLocalStorage(repo, deviceId, RelaySettingsOf(screen)),
                               deviceId, command, sent)
            /\ screen' = [screen EXCEPT !.accessControl = type, !.command = command]
    IN  /\ screen.device \in DeviceIdsOf(repo)
        /\ Len(repo.logs) < MaxRepoLogs
        /\ Send(screen.device,
                Chars(GetDeviceById(repo, screen.device).password) \o Chars(type)
                    \o Chars("#"))
        /\ UNCHANGED <<cache, sync, calls, restoreVars, smsVars>>

InitApp ==
    /\ AppIdle
    /\ store = EmptyStore
    /\ backup = [status |-> "none", text |-> <<>>, pre |-> EmptyStore]
    /\ run = IdleRun
    /\ logs = <<>>
    /\ sms = IdleSMS

\* React has run every queued updater.
Rendered == sync.pending = <<>>

\* One caller manages the devices through the context, one operation after
\* the other; it starts an operation once React has rendered. (ApplyUpdate
\* reads and writes cache and sync only, so the repository states and call
\* results reached are those of any other schedule.)
DeviceOperation(c) ==
    \/ \E device \in DeviceFields : AddDevice(c, device)
    \/ AddDeviceFails(c, NewDevice)
    \/ \E deviceId \in DeviceIdArgs, failed \in SUBSET {"logs", "active"} :
          DeleteDevice(c, deviceId, failed)
    \/ \E deviceId \in DeviceIdArgs : DeleteDeviceFails(c, deviceId)
    \/ \E deviceId \in DeviceIdArgs : AddDeviceLogEntry(c, deviceId)
    \/ \E deviceId \in DeviceIdArgs \cup {NullId} : SetActiveDevice(c, deviceId)
    \/ \E deviceId \in DeviceIdArgs \cup {NullId} : UpdateGlobalSettings(c, deviceId)

NextRepo ==
    \/ RefreshAfter("c1")
    \/ Settle("c1")
    \/ \E stored \in BOOLEAN : LogDeletion("c1", stored)
    \/ ApplyUpdate
    \/ Rendered /\ DeviceOperation("c1")

SpecRepo == InitApp /\ [][NextRepo]_vars

\* One caller manages the users and who is authorized for which device.
UserOperation(c) ==
    \/ \E device \in DeviceFields : AddDevice(c, device)
    \/ \E deviceId \in DeviceIdArgs, ids \in {<<>>, <<1>>} : UpdateDevice(c, deviceId, ids)
    \/ AddUser(c)
    \/ \E userId \in UserIdArgs, cascadeFails \in BOOLEAN : DeleteUser(c, userId, cascadeFails)
    \/ \E deviceId \in DeviceIdArgs, userId \in UserIdArgs :
          AuthorizeUserForDevice(c, deviceId, userId)
    \/ \E deviceId \in DeviceIdArgs, userId \in UserIdArgs :
          DeauthorizeUserForDevice(c, deviceId, userId)

NextUsers ==
    \/ RefreshAfter("c1")
    \/ Settle("c1")
    \/ ApplyUpdate
    \/ Rendered /\ UserOperation("c1")

SpecUsers == InitApp /\ [][NextUsers]_vars

\* Two callers refresh, add devices and select the active one.
NextSync ==
    \/ \E c \in Callers : RefreshStore(c)
    \/ \E c \in Callers : RefreshAfter(c)
    \/ \E c \in Callers : Settle(c)
    \/ ApplyUpdate
    \/ \E c \in Callers : AddDevice(c, NewDevice)
    \/ \E deviceId \in DeviceIdArgs \cup {NullId} : SetActiveDevice("c1", deviceId)

SpecSync == InitApp /\ [][NextSync]_vars

\* A device is added, loaded into the relay-settings screen and its settings
\* are edited and saved there.
NextScreen ==
    \/ Rendered /\ AddDevice("c1", NewDevice)
    \/ RefreshAfter("c1")
    \/ Settle("c1")
    \/ ApplyUpdate
    \/ \E deviceId \in DeviceIdArgs : ClearDeviceLogs("c1", deviceId)
    \/ \E deviceId \in DeviceIdArgs : LoadDevice(deviceId)
    \/ \E text \in LatchTimeTexts : HandleLatchTimeChange(text)
    \/ \E sent \in BOOLEAN : SetLatchTime(sent)
    \/ \E type \in {"AUT", "ALL"}, sent \in BOOLEAN : SetAccessControl(type, sent)

SpecScreen == InitApp /\ [][NextScreen]_vars

(***************************************************************************)
(* Properties of the backup/restore pipeline, checked under SpecRestore    *)
(***************************************************************************)

\* The keys of a list of entries, and those whose value is not null.
EntryKeys(entries) == {entries[i].k : i \in 1..Len(entries)}

NonNullKeys(entries) ==
    {entries[i].k : i \in {j \in 1..Len(entries) : entries[j].v.t # "null"}}

\* The store that holds exactly the non-null entries, each as valueToStore.
StoreOfEntries(entries) ==
    [k \in NonNullKeys(entries) |-> ValueToStore(ObjGet(entries, k))]

\* No Store Backend operation of the restore call has failed.
NoBackendFailure ==
    /\ run.cleared \in {"none", "ok"}
    /\ run.written = run.attempted

\* C1 (round trip): when restoreFromBackup has run on the text createBackup
\* returned, with no Store Backend failure, it has returned true and the store
\* holds exactly the key/value pairs it held when the backup was made.
C1_RoundTrip ==
    (run.pc = "done" /\ run.source = "backup" /\ NoBackendFailure)
        => (run.result = "ok" /\ store = backup.pre)

\* C2 (guard): a restore of empty or whitespace-only text has failed with the
\* empty-backup error, has started no Store Backend operation and has left the
\* store as it was.
C2_EmptyOrWhitespaceIsEmptyBackup ==
    (run.pc # "idle" /\ Trim(run.backupJson) = <<>>)
        => /\ run.pc = "done"
           /\ run.result = "EmptyBackup"
           /\ run.backendCalls = 0
           /\ store = run.before

\* C3 as claimed: after a restore that returned true, every key of the store
\* is a key of the normalized key-space, whatever the clear step did.
C3_ReplacedOnSuccess ==
    (run.pc = "done" /\ run.result = "ok")
        => DOMAIN store \subseteq EntryKeys(run.entries)

\* C3 as amended: after a restore that returned true and whose clear step
\* succeeded, every key of the store is a key of the normalized key-space (no
\* key from before the restore that the backup lacks survives).
C3_ReplacedWhenCleared ==
    (run.pc = "done" /\ run.result = "ok" /\ run.cleared = "ok")
        => DOMAIN store \subseteq EntryKeys(run.entries)

\* A restore returned true, its clear step succeeded, and a key the store held
\* before, absent from the backup, is gone.
C3_Witness ==
    /\ run.pc = "done" /\ run.result = "ok" /\ run.cleared = "ok"
    /\ \E k \in DOMAIN run.before :
          k \notin EntryKeys(run.entries) /\ k \notin DOMAIN store

C5_ClaimedShape(parsedData) ==
    LET data == IF parsedData.t = "obj" THEN ObjGet(parsedData.kids, Chars("data"))
                ELSE JError
    IN  IF data.t = "obj" THEN [fails |-> FALSE, entries |-> data.kids]
        ELSE IF data.t = "arr" THEN [fails |-> TRUE, entries |-> <<>>]
        ELSE IF parsedData.t = "obj" THEN [fails |-> FALSE, entries |-> parsedData.kids]
        ELSE IF parsedData.t = "arr"
            THEN [fails |-> FALSE,
                  entries |-> <<[k |-> Chars("gsm_devices"), v |-> parsedData]>>]
        ELSE [fails |-> TRUE, entries |-> <<>>]

\* C5 (shape normalization): once a restore has parsed its text, the key-space
\* is the `data` object when there is one, else the parsed object itself, else
\* the array under "gsm_devices"; for anything else, and for a `data` array,
\* the call has failed with UnsupportedFormatError and the store is as before.
C5_ShapeNormalization ==
    (run.pc # "idle" /\ run.stage \in {"strict", "repair", "extract"})
        => LET Holds(claimed) ==
                   IF claimed.fails
                   THEN /\ run.pc = "done"
                        /\ run.result = "UnsupportedFormat"
                        /\ store = run.before
                   ELSE /\ run.kind = "entries"
                        /\ run.entries = claimed.entries
           IN  Holds(C5_ClaimedShape(
                       ParseStep(ProcessedContent(run.backupJson)).parsedData))

\* C6 (legacy device list): a restore of a text that is a JSON array, with no
\* Store Backend failure, has returned true and left the store with the single
\* key "gsm_devices" holding the JSON text of the whole array.
C6_BareArrayIsDeviceList ==
    (run.pc = "done" /\ NoBackendFailure /\ JSONParse(run.backupJson).t = "arr")
        => /\ run.result = "ok"
           /\ store = (Chars("gsm_devices") :> JSONStringify(JSONParse(run.backupJson)))

\* C7 (trailing text): a restore of a flat backup object J followed by trailing
\* text T, with no Store Backend failure, has returned true and the store
\* holds exactly the pairs of J.
C7_TrailingTextTolerated ==
    \A J \in FlatObjects, T \in Trailers :
        (run.pc = "done" /\ NoBackendFailure /\ run.backupJson = J \o T)
            => /\ run.result = "ok"
               /\ store = StoreOfEntries(JSONParse(J).kids)

\* Texts with a comma before a closing brace or bracket, each with the text
\* it stands for.
TrailingCommaCases ==
    { [text |-> Chars("{\"a\":1,}"), fixed |-> Chars("{\"a\":1}")],
      [text |-> Chars("{\"b\":[1,2,],}"), fixed |-> Chars("{\"b\":[1,2]}")],
      [text |-> Chars("log: {\"b\":\"x\",\"c\":[1,2,]}"),
       fixed |-> Chars("{\"b\":\"x\",\"c\":[1,2]}")] }

\* C8 (trailing comma): a text with a comma before a closing brace or bracket
\* is parsed by the repair pass and restored as the key-space of the text
\* without those commas; and the strategies are tried in order: the repair
\* pass produced the value only where the strict parse fails, the extraction
\* only where the strict parse and the repair pass both fail.
C8_TrailingCommaRepaired ==
    /\ \A c \in TrailingCommaCases :
          (run.pc # "idle" /\ run.backupJson = c.text)
              => /\ run.stage = "repair"
                 /\ run.entries = JSONParse(c.fixed).kids
                 /\ (run.pc = "done" /\ NoBackendFailure)
                       => /\ run.result = "ok"
                          /\ store = StoreOfEntries(JSONParse(c.fixed).kids)
    /\ (run.pc \in {"clear", "done"} /\ run.cleared = "none" /\ run.stage # "none")
          => LET Ordered(strict, repaired) ==
                     /\ (run.stage = "strict") = (strict # JError)
                     /\ (run.stage = "repair") = (strict = JError /\ repaired # JError)
                     /\ (run.stage \in {"extract", "malformed"})
                            = (strict = JError /\ repaired = JError)
                 Content(content) ==
                     Ordered(JSONParse(content), JSONParse(RepairJson(content)))
             IN  Content(ProcessedContent(run.backupJson))

\* The text {"a":1,} has been restored as the key-space {a: 1}.
C8_Witness ==
    /\ run.pc = "done" /\ run.result = "ok"
    /\ run.backupJson = Chars("{\"a\":1,}")
    /\ run.stage = "repair"
    /\ store = (Chars("a") :> Chars("1"))

(***************************************************************************)
(* Properties of logSMSOperation, checked under SpecSMS                    *)
(***************************************************************************)

\* C9 (redaction): the masked command of the last call is the command with
\* the first run of 4 digits that an uppercase letter follows replaced by the
\* 4-character mask, everything else and the length unchanged; it is the
\* command itself when the command has no such run.
C9_PasswordMasked ==
    sms.called
        => LET Redacted(index) ==
                   IF index < 0 THEN sms.command
                   ELSE [i \in 1..Len(sms.command) |->
                            IF i \in (index + 1)..(index + 4) THEN "*"
                            ELSE sms.command[i]]
           IN  sms.maskedCommand = Redacted(PasswordShapeIndex(sms.command))

\* C10 (no password in the log): the details of the entry the last call wrote
\* do not contain the 4 digits that precede the action letter of its command,
\* and a command of 4 digits followed by "CC#" is logged as category relay,
\* action "Gate Open Command".
C10_NoPasswordInDetails ==
    (sms.called /\ sms.result = "logged")
        => /\ logs[Len(logs)].details = sms.details
           /\ PasswordShapeIndex(sms.command) >= 0
                 => ~Includes(sms.details,
                              Slice(sms.command, PasswordShapeIndex(sms.command) + 1,
                                    PasswordShapeIndex(sms.command) + 4))
           /\ (\E p \in Passwords : sms.command = p \o Chars("CC#"))
                 => /\ sms.category = "relay"
                    /\ sms.action = Chars("Gate Open Command")

\* The rules of the classifier in their order, each with what it logs.
C11_Rules ==
    << [rule |-> "CC",  action |-> Chars("Gate Open Command"),      category |-> "relay"],
       [rule |-> "DD",  action |-> Chars("Gate Close Command"),     category |-> "relay"],
       [rule |-> "GOT", action |-> Chars("Relay Timing Setting"),   category |-> "settings"],
       [rule |-> "ALL", action |-> Chars("Access Control Setting"), category |-> "settings"],
       [rule |-> "AUT", action |-> Chars("Access Control Setting"), category |-> "settings"],
       [rule |-> "TEL", action |-> Chars("Admin Registration"),     category |-> "settings"],
       [rule |-> "EE",  action |-> Chars("Status Check"),           category |-> "system"],
       [rule |-> "password-change", action |-> Chars("Password Change"),
        category |-> "settings"],
       [rule |-> "add-user", action |-> Chars("User Management"), category |-> "user"],
       [rule |-> "remove-user", action |-> Chars("User Management"), category |-> "user"] >>

C11_RuleMatches(rule, command) ==
    CASE rule = "password-change" -> MatchesPasswordChange(command)
      [] rule = "add-user"        -> MatchesAddUser(command)
      [] rule = "remove-user"     -> MatchesRemoveUser(command)
      [] OTHER                    -> Includes(command, Chars(rule))

\* The indexes of the rules a command matches.
C11_Matching(command) ==
    {i \in 1..Len(C11_Rules) : C11_RuleMatches(C11_Rules[i].rule, command)}

\* C11 (first match wins): the action and category of the last call are those
\* of the first rule of the ordered list CC, DD, GOT, ALL, AUT, TEL, EE,
\* password change, add user, remove user that its command matches, and
\* "Unknown Command" with category relay when it matches none; an add-user
\* command whose field contains "TEL" is Admin Registration/settings.
C11_FirstMatchWins ==
    sms.called
        => LET Logged(matching) ==
                   IF matching = {}
                   THEN sms.action = Chars("Unknown Command") /\ sms.category = "relay"
                   ELSE /\ sms.action = C11_Rules[Min(matching)].action
                        /\ sms.category = C11_Rules[Min(matching)].category
           IN  /\ Logged(C11_Matching(sms.command))
               /\ (\E p \in Passwords : sms.command = p \o Chars("A001#TEL04#"))
                     => (sms.action = Chars("Admin Registration")
                         /\ sms.category = "settings")

\* An add-user command whose field contains "TEL", matching two rules, has
\* been logged as Admin Registration.
C11_Witness ==
    /\ sms.called /\ sms.result = "logged"
    /\ sms.command = Chars("1234A001#TEL04#")
    /\ Cardinality(C11_Matching(sms.command)) = 2
    /\ sms.action = Chars("Admin Registration")

\* The 3 digits that follow "GOT" in a command, <<>> when there are none.
C12_DigitsAfterGOT(command) ==
    LET First(found) == IF found = {} THEN <<>>
                        ELSE Slice(command, Min(found) + 3, Min(found) + 5)
    IN  First({i \in 1..Len(command) :
                  /\ Slice(command, i, i + 2) = <<"G", "O", "T">>
                  /\ \A j \in (i + 3)..(i + 5) : IsDigit(At(command, j))})

\* C12 (relay timing): a command that contains "GOT" and neither "CC" nor
\* "DD" is logged with category settings and action "Relay Timing Setting";
\* with N the 3 digits after "GOT", the details say "toggle mode" when N is
\* "000" and "<N> seconds" otherwise: "1234GOT045#" gives details with
\* "45 seconds", "1234GOT000#" details with "toggle mode".
C12_RelayTiming ==
    (/\ sms.called
     /\ Includes(sms.command, Chars("GOT"))
     /\ ~Includes(sms.command, Chars("CC"))
     /\ ~Includes(sms.command, Chars("DD")))
        => LET Timing(N) ==
                   \/ N = <<>>
                   \/ /\ N = Chars("000")
                      /\ Includes(sms.details, Chars("toggle mode"))
                      /\ ~Includes(sms.details, Chars(" seconds"))
                   \/ /\ N # Chars("000")
                      /\ Includes(sms.details, N \o Chars(" seconds"))
                      /\ ~Includes(sms.details, Chars("toggle mode"))
           IN  /\ sms.category = "settings"
               /\ sms.action = Chars("Relay Timing Setting")
               /\ Timing(C12_DigitsAfterGOT(sms.command))
               /\ sms.command = Chars("1234GOT045#")
                     => Includes(sms.details, Chars("45 seconds"))
               /\ sms.command = Chars("1234GOT000#")
                     => Includes(sms.details, Chars("toggle mode"))

\* "1234GOT045#" has been logged with details that mention 045 seconds.
C12_Witness ==
    /\ sms.called /\ sms.result = "logged"
    /\ sms.command = Chars("1234GOT045#")
    /\ sms.category = "settings"
    /\ Includes(sms.details, Chars("045 seconds"))

\* C13 as claimed: a refreshStore call made while an earlier call was in
\* flight (its promise returned, its caller not yet resumed) has read nothing
\* from the repository, and of two calls in flight together exactly one has
\* performed the getStore read.
C13_OneReadWhileInFlight ==
    /\ \A c \in Callers : (InFlight(c) /\ calls[c].overlap) => ~calls[c].read
    /\ \A c \in Callers : \A o \in Callers \ {c} :
          (InFlight(c) /\ InFlight(o)) => (calls[c].read # calls[o].read)

\* C14 (refresh compares): a step that runs a queued updater leaves the
\* cached snapshot object as it is when what the call read equals it field
\* by field, and otherwise makes a new object of the three fields read the
\* cached snapshot.
C14_KeptOrReplaced ==
    [][ (sync.pending # <<>> /\ sync'.pending = Tail(sync.pending))
            => IF cache.store = Head(sync.pending)
               THEN cache' = cache
               ELSE /\ cache'.store = Head(sync.pending)
                    /\ cache'.ref # cache.ref ]_vars

\* The cached snapshot was replaced once by a differing read, and a read
\* equal to it is queued for the comparison.
C14_Witness ==
    /\ cache.ref = 1
    /\ cache.store # GetStore(EmptyRepo)
    /\ sync.pending # <<>>
    /\ Head(sync.pending) = cache.store

\* A deleteDevice call of the context has completed; the Device record was
\* removed.
DeleteCompleted(c) ==
    /\ calls[c].op = "deleteDevice"
    /\ calls[c].pc = "idle"
    /\ calls[c].primary = "removed"

\* No LogEntry of device id is left, and activeDeviceId is null if it was id.
CascadeDone(c) ==
    /\ \A i \in 1..Len(repo.logs) : repo.logs[i].deviceId # calls[c].id
    /\ calls[c].wasActive => repo.globalSettings.activeDeviceId = NullId

C16_ReturnsPrimaryResult ==
    \A c \in Callers :
        (calls[c].op = "deleteDevice" /\ calls[c].pc = "idle")
            => (calls[c].result = "true" <=> calls[c].primary = "removed")

\* Every operation called has completed.
AllCompleted == \A c \in Callers : calls[c].pc = "idle"

\* C17 as claimed: once the operations called have completed, every id in
\* the authorizedUsers of every Device is the id of an existing User.
C17_AuthorizedUsersExist ==
    AllCompleted =>
        \A i \in 1..Len(repo.devices) :
            Range(repo.devices[i].authorizedUsers) \subseteq UserIdsOf(repo)

\* C18 as claimed: once the operations called have completed, activeDeviceId
\* is null or the id of a Device that exists.
C18_ActiveDeviceExists ==
    AllCompleted =>
        \/ repo.globalSettings.activeDeviceId = NullId
        \/ repo.globalSettings.activeDeviceId \in DeviceIdsOf(repo)

\* C20 (addDevice validates): a step of addDevice with an empty name,
\* unitNumber or password throws the validation error, adds no Device,
\* changes nothing in the repository and calls no refreshStore; with the
\* three present (and no Store Backend failure) it appends to the repository
\* one Device, of a fresh id, with the fields given and with authorizedUsers
\* as given or else empty, and goes on to refresh and to return that Device.
C20_AddDeviceValidates ==
    [][ \A c \in Callers : \A device \in DeviceFields :
          AddDevice(c, device) =>
              IF device.name = "" \/ device.unitNumber = "" \/ device.password = ""
              THEN /\ calls'[c].result = "ValidationError"
                   /\ calls'[c].pc = "idle"
                   /\ repo' = repo /\ sync' = sync /\ cache' = cache
              ELSE /\ Len(repo'.devices) = Len(repo.devices) + 1
                   /\ SubSeq(repo'.devices, 1, Len(repo.devices)) = repo.devices
                   /\ LET added == repo'.devices[Len(repo'.devices)]
                      IN  /\ added.id \notin DeviceIdsOf(repo)
                          /\ added.name = device.name
                          /\ added.unitNumber = device.unitNumber
                          /\ added.password = device.password
                          /\ added.authorizedUsers =
                                IF device.authorizedUsers.given
                                THEN device.authorizedUsers.ids ELSE <<>>
                          /\ calls'[c].id = added.id
                   /\ calls'[c].result = "device"
                   /\ calls'[c].pc = "refresh" ]_vars

\* addDevice returned the Device it added, whose authorizedUsers were not
\* given and are empty.
C20_Witness ==
    /\ calls["c1"].op = "addDevice" /\ calls["c1"].pc = "idle"
    /\ calls["c1"].result = "device"
    /\ \E i \in 1..Len(repo.devices) :
          /\ repo.devices[i].id = calls["c1"].id
          /\ repo.devices[i].authorizedUsers = <<>>

\* C19 as claimed: the latchTime of every Device stored is three digits and
\* its accessControl is AUT or ALL, whatever was typed and saved on the
\* relay-settings screen.
C19_RelaySettingsWellFormed ==
    \A i \in 1..Len(repo.devices) :
        /\ Len(repo.devices[i].relaySettings.latchTime) = 3
        /\ AllDigits(repo.devices[i].relaySettings.latchTime, 1, 3)
        /\ repo.devices[i].relaySettings.accessControl \in {"AUT", "ALL"}

\* How often id occurs in ids.
Occurrences(ids, id) == Cardinality({i \in 1..Len(ids) : ids[i] = id})

\* The devices other than deviceId are in next as they are in the repository.
OthersUnchanged(next, deviceId) ==
    /\ Len(next.devices) = Len(repo.devices)
    /\ \A i \in 1..Len(repo.devices) :
          repo.devices[i].id # deviceId => next.devices[i] = repo.devices[i]

RECURSIVE FirstBalancedEnd(_, _, _)
FirstBalancedEnd(content, i, braceCount) ==
    IF i > Len(content) THEN 0
    ELSE LET count == IF content[i] = "{" THEN braceCount + 1
                      ELSE IF content[i] = "}" THEN braceCount - 1
                      ELSE braceCount
         IN  IF content[i] = "}" /\ count = 0 THEN i
             ELSE FirstBalancedEnd(content, i + 1, count)

\* The call restores what the text cut after position cut holds.
RestoresPrefix(content, cut) ==
    LET Same(expected) ==
            /\ run.kind = expected.kind
            /\ run.entries = expected.entries
    IN  (cut > 0 /\ cut < Len(content))
            => Same(RunAfterParse(SubstringTo(content, cut), run.source, run.before))

\* C24 as claimed: a restore of a text in which the brace depth first returns
\* to zero before the end works on the text cut there, so that the key/value
\* pairs to restore are those of the first object alone.
C24_CutAtFirstBalance ==
    LET Cut(content) == RestoresPrefix(content, FirstBalancedEnd(content, 1, 0))
    IN  run.pc # "idle" => Cut(LocateStart(Trim(run.backupJson)))

\* The keys of the text from character i on that stand at nesting depth 1: a
\* string literal followed by a colon, directly inside the outermost braces.
RECURSIVE TopLevelKeys(_, _, _)
TopLevelKeys(s, i, depth) ==
    LET Literal(close) ==
            IF close = 0 THEN {}
            ELSE (IF depth = 1 /\ At(s, SkipWS(s, close + 1)) = ":"
                  THEN {Slice(s, i + 1, close - 1)} ELSE {})
                 \cup TopLevelKeys(s, close + 1, depth)
    IN  IF i > Len(s) THEN {}
        ELSE IF s[i] = "\"" THEN Literal(RegexStringEnd(s, i + 1))
        ELSE IF s[i] \in {"{", "["} THEN TopLevelKeys(s, i + 1, depth + 1)
        ELSE IF s[i] \in {"}", "]"} THEN TopLevelKeys(s, i + 1, depth - 1)
        ELSE TopLevelKeys(s, i + 1, depth)

\* C25 as claimed, for the last-resort extraction: every key a restore that
\* fell back to the extraction has written to the store is a top-level key of
\* the text; a key nested inside an inner object is not among them.
C25_ExtractsTopLevelOnly ==
    run.stage = "extract"
        => run.written \subseteq TopLevelKeys(ProcessedContent(run.backupJson), 1, 0)

\* C26 as claimed: a restore that has failed for another reason than zero
\* successful writes has started no Store Backend operation and has left the
\* store as it was when the call was made.
C26_FailsBeforeBackend ==
    (run.pc = "done" /\ run.result \notin {"ok", "RestoreFailed"})
        => (run.backendCalls = 0 /\ store = run.before)

\* The cached snapshot has the devices, users and globalSettings of the
\* repository.
CacheCurrent == cache.store = GetStore(repo)

C28_SavesSelectedMode ==
    [][ \A type \in {"AUT", "ALL"} : \A sent \in BOOLEAN :
            SetAccessControl(type, sent)
                => GetDeviceById(repo', screen.device).relaySettings.accessControl = type
      ]_vars

====
